---- MODULE Spec2Model ----
(***************************************************************************)
(* Qwen3-ASR ONNX Runtime pipeline (qwen_asr_onnx.c): the context created  *)
(* by qwen_onnx_load, the staged qwen_onnx_transcribe routine and          *)
(* qwen_onnx_free, as a state machine.  qwen_onnx_load and                 *)
(* qwen_onnx_transcribe are split at the calls that can fail (session      *)
(* creation, tensor creation, Run, tensor queries, checked allocations);   *)
(* each such call either succeeds or takes the function's failure exit.    *)
(* Sessions, OrtValues, heap blocks and the resources of a context are     *)
(* tracked by identity so that releases can be counted.  Allocations the   *)
(* code does not check (the padded mel buffer, text, result, strdup) are   *)
(* taken to succeed.  The host calls the three functions one at a time.    *)
(***************************************************************************)
EXTENDS Integers, Sequences, FiniteSets, TLC

(* ------------------------------------------------------------------ *)
(* Program constants                                                    *)
(* ------------------------------------------------------------------ *)
MAX_DEC_LAYERS == 28
MAX_NEW_TOKENS == 1024
CHUNK_SIZE == 100
N_PREFIX == 9
N_SUFFIX == 6
PROMPT_PREFIX == <<151644, 8948, 198, 151645, 198, 151644, 872, 198, 151669>>
PROMPT_SUFFIX == <<151670, 151645, 198, 151644, 77091, 198>>
EOS_TOKENS == <<151643, 151645>>
N_EOS == 2
SPECIAL_FLOOR == 151643
ORT_DISABLE_ALL == 0
ORT_ENABLE_BASIC == 1
QWEN_TOKEN_ASR_TEXT == 151704
QWEN_MEL_BINS == 128
NULL == 0

(* ------------------------------------------------------------------ *)
(* Bounds of the model                                                  *)
(* ------------------------------------------------------------------ *)
\* stream positions at which the backend may emit any token of Alphabet
MaxFree == 3
\* largest n_audio (rows of the encoder output)
MaxAudio == 2
\* longest list of optimization levels passed to create_session_with_fallback
MaxLevels == 3

(* ------------------------------------------------------------------ *)
(* Helpers                                                              *)
(* ------------------------------------------------------------------ *)
is_eos(token) == \E i \in 1..N_EOS : token = EOS_TOKENS[i]

\* (int)(n_outputs - 1) / 2 with n_outputs a size_t: n_outputs = 0 wraps to
\* SIZE_MAX, which the cast truncates to -1; C division truncates toward 0.
NLayersOf(n_outputs) ==
    LET d == IF n_outputs = 0 THEN -1 ELSE n_outputs - 1
    IN  IF d < 0 THEN 0 ELSE d \div 2

\* the ids v, v+1, ..., v+k-1 as a sequence
FreshSeq(v, k) == [i \in 1..k |-> v + i - 1]

SeqRange(s) == {s[i] : i \in 1..Len(s)}


(* ------------------------------------------------------------------ *)
(* Half precision                                                       *)
(* ------------------------------------------------------------------ *)
\* A uint16_t is a number in 0..65535.  A 32-bit float word is kept as its
\* three fields (sign: bit 31, exp: bits 30..23, mant: bits 22..0), which the
\* code assembles with shifts and ORs of non-overlapping fields and takes
\* apart with shifts and masks.

\* while (!(mant & 0x400)) { mant <<= 1; exp--; }
RECURSIVE NormaliseSubnormal(_, _)
NormaliseSubnormal(mant, exp) ==
    IF (mant \div 1024) % 2 = 1 THEN [mant |-> mant, exp |-> exp]
    ELSE NormaliseSubnormal(mant * 2, exp - 1)

\* fp16_to_f32(h).  exp is unsigned in the code and wraps below 0; the sum
\* exp + 127 - 15 is taken modulo 2^32 and is the same number as here.
fp16_to_f32(h) ==
    LET sign == h \div 32768
        exp == (h \div 1024) % 32
        mant == h % 1024
    IN  IF exp = 0 THEN
            IF mant = 0 THEN [sign |-> sign, exp |-> 0, mant |-> 0]
            ELSE LET n == NormaliseSubnormal(mant, 1)
                 IN  [sign |-> sign, exp |-> n.exp + 127 - 15,
                      mant |-> (n.mant % 1024) * 8192]
        ELSE IF exp = 31 THEN
            [sign |-> sign, exp |-> 255, mant |-> mant * 8192]
        ELSE
            [sign |-> sign, exp |-> exp + 127 - 15, mant |-> mant * 8192]

\* The fp32 -> fp16 loop body of load_npy_fp16 on the word bits:
\* sign = (bits >> 16) & 0x8000; exp_val = ((bits >> 23) & 0xFF) - 127 + 15;
\* mant = (bits >> 13) & 0x3FF.
fp32_to_fp16(bits) ==
    LET sign == bits.sign * 32768
        exp_val == bits.exp - 127 + 15
        mant == (bits.mant \div 8192) % 1024
    IN  IF exp_val <= 0 THEN sign
        ELSE IF exp_val >= 31 THEN sign + 31744
        ELSE sign + exp_val * 1024 + mant

(* ------------------------------------------------------------------ *)
(* External collaborators                                               *)
(* ------------------------------------------------------------------ *)
\* Token ids the backend's logits may select (argmax) in this model: an
\* ordinary token, a space, a newline, the <asr_text> marker, both EOS ids
\* and one further special id.
TOK_A == 64
TOK_SPACE == 220
TOK_NL == 198
TOK_SPECIAL == 151646
Alphabet ==
    {TOK_A, TOK_SPACE, QWEN_TOKEN_ASR_TEXT, TOK_SPECIAL,
     EOS_TOKENS[1], EOS_TOKENS[2]}

\* qwen_tokenizer_decode: token id -> piece (a sequence of characters);
\* <<>> stands for a NULL or empty piece.
qwen_tokenizer_decode(id) ==
    CASE id = TOK_A -> <<"a">>
      [] id = TOK_SPACE -> <<" ">>
      [] id = TOK_NL -> <<"\n">>
      [] id = QWEN_TOKEN_ASR_TEXT -> <<"<", "t", ">">>
      [] id = TOK_SPECIAL -> <<"<", "s", ">">>
      [] id = EOS_TOKENS[1] -> <<"<", "e", ">">>
      [] id = EOS_TOKENS[2] -> <<"<", "i", ">">>
      [] OTHER -> <<>>

(* ------------------------------------------------------------------ *)
(* State                                                                *)
(* ------------------------------------------------------------------ *)
VARIABLES
    \* struct qwen_onnx_ctx
    ctx_state,       \* "none" (no context), "loaded", "freed"
    keep_sessions,   \* ctx->keep_sessions (fixed by the build target)
    encoder,         \* ctx->encoder: session id or NULL
    prefill,         \* ctx->prefill
    decode,          \* ctx->decode
    n_layers,        \* ctx->n_layers
    ctx_res,         \* non-NULL resources of ctx: env, mem_info, model_dir, ...
    resources,       \* [live: resources of contexts not yet released, bad]
    ld,              \* the running qwen_onnx_load call
    \* process-wide state
    last_error,      \* last_error_buf
    last_n_tokens,   \* last_n_tokens
    \* the backend and the heap
    sessions,        \* [live: ids of created, unreleased sessions, next, bad]
    values,          \* [live: ids of unreleased OrtValues, next, bad]
    heap,            \* [live: names of unfreed blocks of the call, bad]
    \* the model directory and the backend's behaviour
    model,           \* [n_outputs: prefill output count,
                     \*  stream: "free"|"long"|"fixed", seed: which fixed
                     \*  backend, one_shot: the host transcribes once]
    \* a half-precision value on its way through the two conversions
    conv,            \* [pc, h: 16 bits, f: the float, out: 16 bits]
    \* one create_session_with_fallback call seen on its own
    fb,              \* [pc, levels, res: the backend's answers, ok, attempted]
    \* the running qwen_onnx_transcribe call
    t

vars ==
    <<ctx_state, keep_sessions, encoder, prefill, decode, n_layers, ctx_res,
      resources, ld, last_error, last_n_tokens, sessions, values, heap, model,
      conv, fb, t>>

ctxVars ==
    <<ctx_state, keep_sessions, encoder, prefill, decode, n_layers, ctx_res,
      resources, ld>>

\* Locals of qwen_onnx_transcribe as declared at its top (all NULL / 0).
Frame0 ==
    [pc |-> "idle",
     \* the arguments: ctx and samples (NULL or a pointer), n_samples
     ctx |-> NULL, samples |-> NULL, n_samples |-> 0,
     enc_input |-> NULL, enc_output |-> NULL, prefill_input |-> NULL,
     decode_token_input |-> NULL, decode_pos_input |-> NULL,
     prefill_outputs |-> <<>>, decode_outputs |-> <<>>, kv_caches |-> <<>>,
     ptrs |-> {},
     \* the rows of the input_embeds buffer (<<>> while it is not built)
     input_embeds |-> <<>>,
     n_layers |-> 0, n_frames |-> 0, padded_frames |-> 0,
     \* the buffer mel points to: its size and how much of it was filled from
     \* the extractor's output, in floats
     mel |-> [size |-> 0, copied |-> 0],
     enc_rows |-> 0, n_audio |-> 0, prompt_len |-> 0,
     generated |-> <<>>, n_generated |-> 0, token |-> 0, step |-> 0,
     decode_pos_val |-> 0,
     \* history: Runs of the decode session issued by the call, and the id of
     \* the first output (the logits) of the latest prefill or decode Run
     decode_runs |-> 0, run_base |-> 0,
     \* history: the number of positions held in the caches of kv_caches
     past_len |-> 0,
     n_stripped |-> 0, past_asr_text |-> FALSE, text |-> <<>>,
     \* history: the kind of call whose failure sent the call to cleanup, and
     \* whether set_last_error has been called during the call
     cause |-> "none", wrote |-> FALSE,
     \* history, kept with a "fixed" backend only: the token stream and the
     \* text of the latest earlier call on the context that returned text
     prev |-> [generated |-> <<>>, result |-> <<>>],
     ret |-> "none", result |-> <<>>]

\* Locals of qwen_onnx_load, with the embedding files it found in the model
\* directory and, as history, the step that failed.
LoadFrame0 ==
    [pc |-> "idle", fp16_file |-> "none", plain_file |-> "none",
     embed_path |-> "", fail |-> "none", ret |-> "none"]

\* No conversion under way.
Conv0 == [pc |-> "idle", h |-> 0, f |-> [sign |-> 0, exp |-> 0, mant |-> 0],
          out |-> 0]

\* No create_session_with_fallback call under way.
Fallback0 ==
    [pc |-> "idle", levels |-> <<>>, res |-> <<>>, ok |-> FALSE,
     attempted |-> <<>>]

\* prefill output counts of the model files considered
PrefillOutputCounts == {3, 5}

\* rows declared by the header of the embedding file of the model directory
\* considered: more than every token id used here
EmbedRows == {151936}

\* ctx->vocab_size = rows; (rows > 0, or the load fails)
vocab_size == model.embed_rows

\* token_id names a row of the mapped [vocab_size, hidden_dim] matrix
InVocabulary(token_id) == 0 <= token_id /\ token_id < vocab_size

\* the indices argmax_f32(logits, ctx->vocab_size) can return among ids: at
\* least index 0
ArgmaxOver(ids) ==
    LET within == {id \in ids : InVocabulary(id)}
    IN  IF within = {} THEN {0} ELSE within

InitCommon ==
    /\ ctx_state = "none"
    /\ keep_sessions \in BOOLEAN
    /\ encoder = NULL /\ prefill = NULL /\ decode = NULL
    /\ n_layers = 0
    /\ ctx_res = {}
    /\ resources = [live |-> {}, bad |-> FALSE]
    /\ ld = LoadFrame0
    /\ last_error = ""
    /\ last_n_tokens = 0
    /\ sessions = [live |-> {}, next |-> 1, bad |-> FALSE]
    /\ values = [live |-> {}, next |-> 1, bad |-> FALSE]
    /\ heap = [live |-> {}, bad |-> FALSE]
    /\ t = Frame0

Init ==
    /\ InitCommon
    /\ conv = Conv0
    /\ fb = Fallback0
    /\ model \in [n_outputs : PrefillOutputCounts, stream : {"free"},
                  seed : {0}, one_shot : {FALSE}, embed_rows : EmbedRows]

(* ------------------------------------------------------------------ *)
(* Backend and heap bookkeeping                                         *)
(* ------------------------------------------------------------------ *)
\* CreateSession succeeded: a new live session with the next id
NewSession(ss) == [ss EXCEPT !.live = @ \cup {ss.next}, !.next = @ + 1]

\* api->ReleaseSession(s), s non-NULL
ReleaseSession(ss, s) ==
    [ss EXCEPT !.live = @ \ {s}, !.bad = @ \/ (s \notin ss.live)]

\* k new OrtValues (outputs of a Run, or a created tensor)
NewValues(vs, k) ==
    [vs EXCEPT !.live = @ \cup {vs.next + i : i \in 0..(k - 1)}, !.next = @ + k]

\* api->ReleaseValue on each element of the sequence rel, in order: a value
\* that is not live when its turn comes (never live, or released by an
\* earlier element) is a bad release
ReleaseValues(vs, rel) ==
    LET released == {rel[i] : i \in 1..Len(rel)}
        twice == \E i, j \in 1..Len(rel) : i < j /\ rel[i] = rel[j]
    IN  [vs EXCEPT !.live = @ \ released,
                   !.bad = @ \/ ~(released \subseteq vs.live) \/ twice]

Malloc(h, blocks) == [h EXCEPT !.live = @ \cup blocks]

\* free(p) for each named block (free(NULL) is not passed here)
Free(h, blocks) ==
    [h EXCEPT !.live = @ \ blocks, !.bad = @ \/ ~(blocks \subseteq h.live)]

\* Block names are those of one call's locals: blocks an earlier call left
\* unfreed stay lost and are no longer followed once the next call starts.
NewCall(h) == [h EXCEPT !.live = {}]

\* the non-NULL entries of a pointer array, in index order
RECURSIVE NonNullSeq(_)
NonNullSeq(s) ==
    IF s = <<>> THEN <<>>
    ELSE (IF Head(s) = NULL THEN <<>> ELSE <<Head(s)>>) \o NonNullSeq(Tail(s))

(* ------------------------------------------------------------------ *)
(* Session manager                                                      *)
(* ------------------------------------------------------------------ *)
enc_levels == <<ORT_DISABLE_ALL>>
dec_levels == <<ORT_ENABLE_BASIC, ORT_DISABLE_ALL>>

CreateFailedMsg(level) ==
    IF level = ORT_ENABLE_BASIC THEN "CreateSession failed (opt=1)"
    ELSE "CreateSession failed (opt=0)"

\* What the backend does at each level of one call: "ok" (CreateSession
\* succeeds), "fail" (CreateSession fails), "optfail" (the session options
\* cannot be created or set).
LevelOutcomes(levels) == [1..Len(levels) -> {"ok", "fail", "optfail"}]

\* create_session_with_fallback from level index i on.  ok: the return value;
\* attempted: the levels CreateSession was called with, in order; err: the
\* message left by the last set_last_error of the call ("" if none).
RECURSIVE create_session_with_fallback(_, _, _)
create_session_with_fallback(levels, res, i) ==
    IF i > Len(levels) THEN [ok |-> FALSE, attempted |-> <<>>, err |-> ""]
    ELSE CASE res[i] = "optfail" ->
                [ok |-> FALSE, attempted |-> <<>>, err |-> ""]
           [] res[i] = "ok" ->
                [ok |-> TRUE, attempted |-> <<levels[i]>>, err |-> ""]
           [] OTHER ->
                LET r == create_session_with_fallback(levels, res, i + 1)
                IN  [ok |-> r.ok,
                     attempted |-> <<levels[i]>> \o r.attempted,
                     err |-> IF r.err # "" THEN r.err
                             ELSE CreateFailedMsg(levels[i])]

\* last_error_buf after a create_session_with_fallback call with result r whose
\* caller reports failure with msg
ErrorAfterCreate(old, r, msg) ==
    IF ~r.ok THEN msg ELSE IF r.err # "" THEN r.err ELSE old

(* ------------------------------------------------------------------ *)
(* qwen_onnx_load / qwen_onnx_free                                      *)
(* ------------------------------------------------------------------ *)
CtxResources == {"ctx", "env", "mem_info", "model_dir", "tokenizer", "embed_mmap"}

\* the messages qwen_onnx_load passes to set_last_error, by failing step
LoadErrorMsg(fail) ==
    CASE fail = "calloc" -> "calloc failed"
      [] fail = "tokenizer" -> "failed to load tokenizer from vocab.json"
      [] fail = "mmap" -> "failed to mmap embed_tokens"
      [] OTHER -> "ORT load error"

\* Ids restart once nothing is live and no pointer to an earlier id is held
\* (the context holds no session, or the call's locals are gone).
ResetIds(r) == IF r.live = {} THEN [r EXCEPT !.next = 1] ELSE r

\* The eager block of qwen_onnx_load (keep_sessions): the three sessions in
\* order; n is the number created before the first failure.
EagerLoad(re, rp, rd) ==
    LET e == create_session_with_fallback(enc_levels, re, 1)
        p == create_session_with_fallback(dec_levels, rp, 1)
        d == create_session_with_fallback(dec_levels, rd, 1)
    IN  IF ~e.ok THEN
            [ok |-> FALSE, n |-> 0, err |-> "failed to eager-load encoder session"]
        ELSE IF ~p.ok THEN
            [ok |-> FALSE, n |-> 1,
             err |-> "failed to eager-load decoder_prefill session"]
        ELSE IF ~d.ok THEN
            [ok |-> FALSE, n |-> 2,
             err |-> "failed to eager-load decoder_decode session"]
        ELSE
            [ok |-> TRUE, n |-> 3,
             err |-> ErrorAfterCreate(
                         ErrorAfterCreate(ErrorAfterCreate("", e, ""), p, ""),
                         d, "")]

\* Variant: the prefill session is not released.
FreeSessions_SkipPrefill(ss, slots) ==
    LET RECURSIVE Rel(_, _)
        Rel(acc, s) ==
            IF s = <<>> THEN acc
            ELSE Rel(IF Head(s) = NULL THEN acc ELSE ReleaseSession(acc, Head(s)),
                     Tail(s))
    IN  Rel(ss, [i \in 1..Len(slots) |-> IF i = 2 THEN NULL ELSE slots[i]])

\* qwen_onnx_free(ctx): releases every non-NULL session of the context
FreeSessions(ss, slots) ==
    LET RECURSIVE Rel(_, _)
        Rel(acc, s) ==
            IF s = <<>> THEN acc
            ELSE Rel(IF Head(s) = NULL THEN acc ELSE ReleaseSession(acc, Head(s)),
                     Tail(s))
    IN  Rel(ss, slots)

\* a resource comes into being (CreateEnv, strdup, mmap, calloc, ...)
Acquire(rs, names) ==
    [rs EXCEPT !.live = @ \cup names, !.bad = @ \/ (names \cap rs.live # {})]

\* each resource of rel is released, in order (ReleaseEnv, munmap, free, ...)
RECURSIVE ReleaseResources(_, _)
ReleaseResources(rs, rel) ==
    IF rel = <<>> THEN rs
    ELSE ReleaseResources([rs EXCEPT !.live = @ \ {Head(rel)},
                                     !.bad = @ \/ (Head(rel) \notin rs.live)],
                          Tail(rel))

\* Variant: qwen_onnx_free does not free the model_dir copy.
CtxReleases_NoModelDir(fields) ==
    SelectSeq(<<"mem_info", "env", "embed_mmap", "tokenizer">>,
              LAMBDA f : f \in fields) \o <<"ctx">>

\* qwen_onnx_free(ctx), after the sessions: what it releases, in order, given
\* the non-NULL fields of ctx; free(ctx) comes last.
CtxReleases(fields) ==
    SelectSeq(<<"mem_info", "env", "embed_mmap", "tokenizer", "model_dir">>,
              LAMBDA f : f \in fields) \o <<"ctx">>

\* What an embedding file of the model directory can be: absent, without the
\* NPY magic, a float32 array, an fp16 array whose header has no usable
\* shape, a well-formed fp16 array.
EmbedFileKinds == {"missing", "badmagic", "fp32", "fp16_noshape", "fp16"}

\* the header declares dtype <f2
DeclaresF2(kind) == kind \in {"fp16_noshape", "fp16"}

\* embed_tokens.fp16.npy if fopen succeeds on it, otherwise embed_tokens.npy
SelectEmbedPath(fp16_file) ==
    IF fp16_file # "missing" THEN "embed_tokens.fp16.npy" ELSE "embed_tokens.npy"

\* Variant: a file of another dtype is mapped as well.
mmap_npy_fp16_AnyDtype(kind, map_ok, rs) ==
    IF kind = "missing" \/ ~map_ok THEN [ok |-> FALSE, rs |-> rs]
    ELSE LET m == Acquire(rs, {"embed_mmap"})
         IN  IF kind \in {"badmagic", "fp16_noshape"}
             THEN [ok |-> FALSE, rs |-> ReleaseResources(m, <<"embed_mmap">>)]
             ELSE [ok |-> TRUE, rs |-> m]

\* mmap_npy_fp16(path): open and mmap (map_ok: fstat and mmap succeed), then
\* the magic, the dtype and the shape are checked in that order; every check
\* that fails unmaps the region and returns NULL.
mmap_npy_fp16(kind, map_ok, rs) ==
    IF kind = "missing" \/ ~map_ok THEN [ok |-> FALSE, rs |-> rs]
    ELSE LET m == Acquire(rs, {"embed_mmap"})
         IN  IF kind = "badmagic" \/ ~DeclaresF2(kind) \/ kind = "fp16_noshape"
             THEN [ok |-> FALSE, rs |-> ReleaseResources(m, <<"embed_mmap">>)]
             ELSE [ok |-> TRUE, rs |-> m]

\* set_last_error(msg); qwen_onnx_free(ctx); return NULL;  (ORT_CHECK_LOAD and
\* the other failure exits of qwen_onnx_load)
LoadFailed(frame, step, msg, rs, ss, slots, fields) ==
    /\ last_error' = msg
    /\ sessions' = ResetIds(FreeSessions(ss, slots))
    /\ resources' = ReleaseResources(rs, CtxReleases(fields))
    /\ ctx_res' = {}
    /\ encoder' = NULL /\ prefill' = NULL /\ decode' = NULL
    /\ ld' = [frame EXCEPT !.pc = "ld_ret", !.ret = "NULL", !.fail = step]

\* Entry: the buffer is cleared and the context calloc'd.
qwen_onnx_load ==
    /\ ctx_state = "none"
    /\ t.pc = "idle"
    /\ ld.pc = "idle"
    /\ \E ok \in BOOLEAN :
          IF ok THEN
              /\ last_error' = ""
              /\ resources' = Acquire(resources, {"ctx"})
              /\ ctx_res' = {"ctx"}
              /\ ld' = [LoadFrame0 EXCEPT !.pc = "ld_env"]
          ELSE
              /\ last_error' = LoadErrorMsg("calloc")
              /\ ld' = [LoadFrame0 EXCEPT !.pc = "ld_ret", !.ret = "NULL",
                                          !.fail = "calloc"]
              /\ UNCHANGED <<resources, ctx_res>>
    /\ UNCHANGED <<ctx_state, keep_sessions, encoder, prefill, decode, n_layers,
                   last_n_tokens, sessions, values, heap, model, conv, fb, t>>

\* CreateEnv, CreateCpuMemoryInfo (made: how many succeeded), strdup(model_dir).
LoadEnvironment ==
    /\ ld.pc = "ld_env"
    /\ \E made \in 0..2 :
          CASE made = 0 ->
                 LoadFailed(ld, "CreateEnv", LoadErrorMsg("CreateEnv"),
                            resources, sessions, <<>>, ctx_res)
            [] made = 1 ->
                 LoadFailed(ld, "CreateCpuMemoryInfo",
                            LoadErrorMsg("CreateCpuMemoryInfo"),
                            Acquire(resources, {"env"}), sessions, <<>>,
                            ctx_res \cup {"env"})
            [] OTHER ->
                 /\ resources' = Acquire(resources,
                                         {"env", "mem_info", "model_dir"})
                 /\ ctx_res' = ctx_res \cup {"env", "mem_info", "model_dir"}
                 /\ ld' = [ld EXCEPT !.pc = "ld_tok"]
                 /\ UNCHANGED <<last_error, sessions, encoder, prefill, decode>>
    /\ UNCHANGED <<ctx_state, keep_sessions, n_layers, last_n_tokens, values,
                   heap, model, conv, fb, t>>

\* qwen_tokenizer_load(vocab.json)
LoadTokenizer ==
    /\ ld.pc = "ld_tok"
    /\ \E ok \in BOOLEAN :
          IF ~ok THEN
              LoadFailed(ld, "tokenizer", LoadErrorMsg("tokenizer"),
                         resources, sessions, <<>>, ctx_res)
          ELSE
              /\ resources' = Acquire(resources, {"tokenizer"})
              /\ ctx_res' = ctx_res \cup {"tokenizer"}
              /\ ld' = [ld EXCEPT !.pc = "ld_embed"]
              /\ UNCHANGED <<last_error, sessions, encoder, prefill, decode>>
    /\ UNCHANGED <<ctx_state, keep_sessions, n_layers, last_n_tokens, values,
                   heap, model, conv, fb, t>>

\* Choice of the embedding file and mmap_npy_fp16 on it.
LoadEmbeddings ==
    /\ ld.pc = "ld_embed"
    /\ \E fp16_file \in EmbedFileKinds, plain_file \in EmbedFileKinds,
          map_ok \in BOOLEAN :
          LET path == SelectEmbedPath(fp16_file)
              kind == IF path = "embed_tokens.fp16.npy" THEN fp16_file
                      ELSE plain_file
              r == mmap_npy_fp16(kind, map_ok, resources)
              frame == [ld EXCEPT !.fp16_file = fp16_file,
                                  !.plain_file = plain_file,
                                  !.embed_path = path]
          IN  IF ~r.ok THEN
                  LoadFailed(frame, "mmap", LoadErrorMsg("mmap"), r.rs,
                             sessions, <<>>, ctx_res)
              ELSE
                  /\ resources' = r.rs
                  /\ ctx_res' = ctx_res \cup {"embed_mmap"}
                  /\ ld' = [frame EXCEPT !.pc = "ld_eager"]
                  /\ UNCHANGED <<last_error, sessions, encoder, prefill, decode>>
    /\ UNCHANGED <<ctx_state, keep_sessions, n_layers, last_n_tokens, values,
                   heap, model, conv, fb, t>>

\* ctx->n_layers = 0 and, with keep_sessions, the eager block.
LoadSessions ==
    /\ ld.pc = "ld_eager"
    /\ \E re \in LevelOutcomes(enc_levels),
          rp \in LevelOutcomes(dec_levels),
          rd \in LevelOutcomes(dec_levels),
          count_ok \in BOOLEAN :
          LET eager == EagerLoad(re, rp, rd)
              ids == FreshSeq(sessions.next, eager.n)
              created == [sessions EXCEPT !.live = @ \cup SeqRange(ids),
                                          !.next = @ + eager.n]
          IN  IF ~keep_sessions THEN
                  /\ n_layers' = 0
                  /\ ld' = [ld EXCEPT !.pc = "ld_ret", !.ret = "ctx"]
                  /\ UNCHANGED <<last_error, sessions, resources, ctx_res,
                                 encoder, prefill, decode>>
              ELSE IF ~eager.ok THEN
                  /\ n_layers' = 0
                  /\ LoadFailed(ld, "CreateSession", eager.err, resources,
                                created, ids, ctx_res)
              ELSE IF ~count_ok THEN
                  /\ n_layers' = 0
                  /\ LoadFailed(ld, "SessionGetOutputCount",
                                LoadErrorMsg("SessionGetOutputCount"),
                                resources, created, ids, ctx_res)
              ELSE
                  /\ encoder' = ids[1]
                  /\ prefill' = ids[2]
                  /\ decode' = ids[3]
                  /\ n_layers' = NLayersOf(model.n_outputs)
                  /\ last_error' = IF eager.err # "" THEN eager.err
                                   ELSE last_error
                  /\ sessions' = created
                  /\ ld' = [ld EXCEPT !.pc = "ld_ret", !.ret = "ctx"]
                  /\ UNCHANGED <<resources, ctx_res>>
    /\ UNCHANGED <<ctx_state, keep_sessions, last_n_tokens, values, heap,
                   model, conv, fb, t>>

\* return ctx; / return NULL;
LoadReturn ==
    /\ ld.pc = "ld_ret"
    /\ ctx_state' = IF ld.ret = "ctx" THEN "loaded" ELSE "none"
    /\ ld' = LoadFrame0
    /\ UNCHANGED <<keep_sessions, encoder, prefill, decode, n_layers, ctx_res,
                   resources, last_error, last_n_tokens, sessions, values, heap,
                   model, conv, fb, t>>

qwen_onnx_free ==
    /\ ctx_state = "loaded"
    /\ t.pc = "idle"
    /\ ld.pc = "idle"
    /\ resources' = ReleaseResources(resources, CtxReleases(ctx_res))
    /\ ld' = ld
    /\ ctx_state' = "freed"
    /\ sessions' = FreeSessions(sessions, <<encoder, prefill, decode>>)
    /\ ctx_res' = {}
    /\ encoder' = NULL /\ prefill' = NULL /\ decode' = NULL
    /\ t' = Frame0
    /\ UNCHANGED <<keep_sessions, n_layers, last_error, last_n_tokens, values,
                   heap, model, conv, fb>>

(* ------------------------------------------------------------------ *)
(* Detokenizer (qwen_onnx_transcribe, after the decode loop)            *)
(* ------------------------------------------------------------------ *)
\* Variant: only <|endoftext|> (EOS_TOKENS[0]) is stripped.
RECURSIVE StripEos_EndOfTextOnly(_, _)
StripEos_EndOfTextOnly(generated, n) ==
    IF n > 0 /\ generated[n] = EOS_TOKENS[1]
    THEN StripEos_EndOfTextOnly(generated, n - 1) ELSE n

\* while (n_generated > 0 && is_eos(generated[n_generated - 1])) n_generated--;
RECURSIVE StripEos(_, _)
StripEos(generated, n) ==
    IF n > 0 /\ is_eos(generated[n]) THEN StripEos(generated, n - 1) ELSE n

\* Variant: the tokens before the marker are not skipped.
RECURSIVE AsrTextLoop_NoSkip(_, _, _, _)
AsrTextLoop_NoSkip(generated, lo, hi, past) ==
    IF lo > hi THEN [text |-> <<>>, past |-> past]
    ELSE LET r == AsrTextLoop_NoSkip(generated, lo + 1, hi, past)
         IN  IF generated[lo] = QWEN_TOKEN_ASR_TEXT
             THEN [text |-> r.text, past |-> TRUE]
             ELSE [text |-> qwen_tokenizer_decode(generated[lo]) \o r.text,
                   past |-> r.past]

\* First loop (for i in lo..hi, 1-based): pieces of the tokens seen once
\* past_asr_text is set; every occurrence of the marker itself is skipped.
\* The loop over lo..hi is the loop over its first half followed, with the
\* flag it leaves, by the loop over its second half.
RECURSIVE AsrTextLoop(_, _, _, _)
AsrTextLoop(generated, lo, hi, past) ==
    IF lo > hi THEN [text |-> <<>>, past |-> past]
    ELSE IF lo = hi THEN
        IF generated[lo] = QWEN_TOKEN_ASR_TEXT THEN [text |-> <<>>, past |-> TRUE]
        ELSE IF ~past THEN [text |-> <<>>, past |-> past]
        ELSE [text |-> qwen_tokenizer_decode(generated[lo]), past |-> past]
    ELSE LET mid == (lo + hi) \div 2
             l == AsrTextLoop(generated, lo, mid, past)
             r == AsrTextLoop(generated, mid + 1, hi, l.past)
         IN  [text |-> l.text \o r.text, past |-> r.past]

\* Variant: the second loop does not skip the special tokens.
RECURSIVE FallbackLoop_NoFloor(_, _, _)
FallbackLoop_NoFloor(generated, lo, hi) ==
    IF lo > hi THEN <<>>
    ELSE qwen_tokenizer_decode(generated[lo])
         \o FallbackLoop_NoFloor(generated, lo + 1, hi)

\* Second loop (marker never found): pieces of the tokens below 151643.
RECURSIVE FallbackLoop(_, _, _)
FallbackLoop(generated, lo, hi) ==
    IF lo > hi THEN <<>>
    ELSE IF lo = hi THEN
        IF generated[lo] >= SPECIAL_FLOOR THEN <<>>
        ELSE qwen_tokenizer_decode(generated[lo])
    ELSE LET mid == (lo + hi) \div 2
         IN  FallbackLoop(generated, lo, mid) \o FallbackLoop(generated, mid + 1, hi)

IsSpace(c) == c = " " \/ c = "\n" \/ c = "\t"

RECURSIVE TrimLeft(_)
TrimLeft(text) ==
    IF text # <<>> /\ IsSpace(Head(text)) THEN TrimLeft(Tail(text)) ELSE text

RECURSIVE TrimRight(_)
TrimRight(text) ==
    IF text # <<>> /\ IsSpace(text[Len(text)])
    THEN TrimRight(SubSeq(text, 1, Len(text) - 1)) ELSE text

\* start skips leading whitespace, then end backs over trailing whitespace
Trim(text) == TrimRight(TrimLeft(text))

\* generated[0..n) to text, before trimming
Detokenize(generated, n) ==
    LET r == AsrTextLoop(generated, 1, n, FALSE)
    IN  IF r.past THEN r.text ELSE FallbackLoop(generated, 1, n)

(* ------------------------------------------------------------------ *)
(* The backend's answers                                                *)
(* ------------------------------------------------------------------ *)
\* n_frames values the mel extractor returns
MelFrameCounts == {0, 1, 100, 317}

\* (CHUNK_SIZE - (n_frames % CHUNK_SIZE)) % CHUNK_SIZE
PadFrames(n) == (CHUNK_SIZE - (n % CHUNK_SIZE)) % CHUNK_SIZE

\* The extractor returns a [QWEN_MEL_BINS, n_frames] matrix, row after row.
\* Its floats are named 1, 2, ... in buffer order, so that the float of bin b
\* and frame f is 1 + b * n_frames + f; 0 names a zero float written by calloc.
MelEntry(b, f, n_frames) == 1 + b * n_frames + f

\* if (pad_frames > 0) { padded = calloc(QWEN_MEL_BINS * padded_frames);
\* memcpy(padded, mel, QWEN_MEL_BINS * n_frames floats); mel = padded; }
PadMel(n_frames) ==
    [size |-> QWEN_MEL_BINS * (n_frames + PadFrames(n_frames)),
     copied |-> QWEN_MEL_BINS * n_frames]

\* the float at index i of the buffer
MelBufferAt(mel, i) == IF i < mel.copied THEN 1 + i ELSE 0

\* element (0, b, f) of the encoder input tensor, of shape
\* {1, QWEN_MEL_BINS, padded_frames} over the buffer
MelTensorAt(mel, padded_frames, b, f) == MelBufferAt(mel, b * padded_frames + f)

\* A "fixed" backend is deterministic: what the mel extractor, the encoder
\* and the decoders return is a function of what they are given (the samples
\* are the same in every call).  model.seed selects the function.
FixedSeeds == 0..3

FixedFrameCounts == <<0, 1, 100, 317>>

\* what qwen_mel_spectrogram returns in n_frames
MelChoices ==
    IF model.stream = "fixed" THEN {FixedFrameCounts[model.seed + 1]}
    ELSE MelFrameCounts

\* rows of the encoder output for a mel input of padded_frames frames
AudioChoices(padded_frames) ==
    IF model.stream = "fixed"
    THEN {IF padded_frames \div CHUNK_SIZE < MaxAudio
          THEN padded_frames \div CHUNK_SIZE ELSE MaxAudio}
    ELSE 0..MaxAudio

\* The logits of a "fixed" backend at the entries of VocabIds (increasing
\* ids; every other entry is lower): a peak that moves with the position of
\* the Run, at even positions tied with the entry after it.
VocabIds == <<TOK_A, TOK_SPACE, EOS_TOKENS[2], QWEN_TOKEN_ASR_TEXT>>

FixedLogits(position) ==
    LET n == Len(VocabIds)
        k == (model.seed + position) % n
    IN  [i \in 1..n |->
            IF i = k + 1 THEN 2
            ELSE IF k % 2 = 0 /\ i = ((k + 1) % n) + 1 THEN 2
            ELSE 0]

\* argmax_f32(data, n): the index (0-based) of the first largest entry
argmax_f32(data, n) ==
    LET RECURSIVE Scan(_, _, _)
        Scan(i, best, best_val) ==
            IF i >= n THEN best
            ELSE IF data[i + 1] > best_val THEN Scan(i + 1, i, data[i + 1])
            ELSE Scan(i + 1, best, best_val)
    IN  Scan(1, 0, data[1])

\* The argmax of the logits produced for stream index Len(generated).  A
\* "free" backend emits any token of Alphabet at the first MaxFree indices
\* and an EOS after them; a "long" backend repeats one ordinary token and may
\* end the stream only at its first index or at the last two; a "fixed"
\* backend answers by the position of the Run: the last row of the prompt
\* for prefill, the position input for decode.
TokenChoices(generated) ==
    IF model.stream = "fixed" THEN
        LET position == IF generated = <<>> THEN Len(t.input_embeds) - 1
                        ELSE t.decode_pos_val
        IN  {VocabIds[argmax_f32(FixedLogits(position), Len(VocabIds)) + 1]}
    ELSE IF model.stream = "long" THEN
        IF Len(generated) = 0 \/ Len(generated) >= MAX_NEW_TOKENS - 2
        THEN {TOK_A, EOS_TOKENS[2]} ELSE {TOK_A}
    ELSE IF Len(generated) < MaxFree THEN ArgmaxOver(Alphabet)
    ELSE ArgmaxOver({EOS_TOKENS[2]})

(* ------------------------------------------------------------------ *)
(* qwen_onnx_transcribe                                                 *)
(* ------------------------------------------------------------------ *)
\* Variant: the stage teardown is left out.
ReleaseAfterStage_Never(ss, slot) == [ss |-> ss, slot |-> slot]

\* Variant: the session is released but the slot is not set to NULL.
ReleaseAfterStage_SlotKept(ss, slot) ==
    IF slot # NULL /\ ~keep_sessions
    THEN [ss |-> ReleaseSession(ss, slot), slot |-> slot]
    ELSE [ss |-> ss, slot |-> slot]

\* if (ctx->slot && !ctx->keep_sessions) { ReleaseSession; slot = NULL; }
ReleaseAfterStage(ss, slot) ==
    IF slot # NULL /\ ~keep_sessions
    THEN [ss |-> ReleaseSession(ss, slot), slot |-> NULL]
    ELSE [ss |-> ss, slot |-> slot]

\* Variant: the session is created without testing the slot.
LoadOnDemand_Always(ss, slot, levels, res, msg) ==
    LET r == create_session_with_fallback(levels, res, 1)
    IN  [ok |-> r.ok,
         ss |-> IF r.ok THEN NewSession(ss) ELSE ss,
         slot |-> IF r.ok THEN ss.next ELSE slot,
         err |-> ErrorAfterCreate(last_error, r, msg),
         wrote |-> ~r.ok \/ r.err # ""]

\* if (!ctx->slot) { if (!create_session_with_fallback(..., &ctx->slot))
\* { set_last_error(msg); goto cleanup; } }
\* err: last_error_buf afterwards; wrote: set_last_error was called.
LoadOnDemand(ss, slot, levels, res, msg) ==
    IF slot # NULL THEN
        [ok |-> TRUE, ss |-> ss, slot |-> slot, err |-> last_error,
         wrote |-> FALSE]
    ELSE LET r == create_session_with_fallback(levels, res, 1)
         IN  [ok |-> r.ok,
              ss |-> IF r.ok THEN NewSession(ss) ELSE ss,
              slot |-> IF r.ok THEN ss.next ELSE NULL,
              err |-> ErrorAfterCreate(last_error, r, msg),
              wrote |-> ~r.ok \/ r.err # ""]

\* api->Run(session, ...): a Run on a slot that holds no live session is
\* recorded in sessions.bad
RunOn(ss, slot) == [ss EXCEPT !.bad = @ \/ (slot \notin ss.live)]

\* goto cleanup
Fail(frame) == [frame EXCEPT !.pc = "cleanup"]

\* Variant: once tokens exist, a failure leaves the loop for the detokenizer.
Abort_BreakLoop(frame, cause) ==
    [frame EXCEPT !.pc = IF frame.generated # <<>> THEN "detok" ELSE "cleanup",
                  !.cause = cause]

\* goto cleanup, with the kind of call that failed kept as history
Abort(frame, cause) == [Fail(frame) EXCEPT !.cause = cause]

\* the stream and text of the latest call so far that returned text
EarlierResult(frame) ==
    IF model.stream # "fixed" THEN Frame0.prev
    ELSE IF frame.ret = "text"
    THEN [generated |-> frame.generated, result |-> frame.result]
    ELSE frame.prev

\* n_samples values the host passes (1 stands for any positive count)
SampleCounts == {-1, 0, 1}

\* The host calls qwen_onnx_transcribe(ctx, samples, n_samples).  It holds a
\* context pointer only while a context is loaded, and does not use a freed one.
Transcribe ==
    /\ t.pc = "idle"
    /\ ld.pc = "idle"
    /\ ctx_state # "freed"
    /\ model.one_shot => t.ret = "none"
    /\ \E c \in {NULL, 1}, s \in {NULL, 1}, n \in SampleCounts :
          /\ c # NULL => ctx_state = "loaded"
          /\ t' = [Frame0 EXCEPT !.pc = "guard", !.ret = "running",
                                 !.ctx = c, !.samples = s, !.n_samples = n,
                                 !.prev = EarlierResult(t)]
    /\ UNCHANGED <<ctxVars, last_error, last_n_tokens, sessions, values, heap,
                   model, conv, fb>>

\* Variant: a zero sample count is let through.
ArgsRejected_NegativeOnly(c, s, n) == c = NULL \/ s = NULL \/ n < 0

\* if (!ctx || !samples || n_samples <= 0) return NULL;
ArgsRejected(c, s, n) == c = NULL \/ s = NULL \/ n <= 0

\* The argument guard, then the locals and malloc of generated.
ArgumentGuard ==
    /\ t.pc = "guard"
    /\ \E ok \in BOOLEAN :
          IF ArgsRejected(t.ctx, t.samples, t.n_samples) THEN
              /\ ok
              /\ t' = [t EXCEPT !.pc = "idle", !.ret = "NULL"]
              /\ UNCHANGED <<values, heap>>
          ELSE
              /\ values' = ResetIds(values)
              /\ heap' = IF ok THEN Malloc(NewCall(heap), {"generated"})
                         ELSE NewCall(heap)
              /\ t' = [t EXCEPT !.pc = IF ok THEN "mel" ELSE "cleanup",
                                !.cause = IF ok THEN "none" ELSE "alloc",
                                !.ptrs = IF ok THEN {"generated"} ELSE {}]
    /\ UNCHANGED <<ctxVars, last_error, last_n_tokens, sessions, model, conv, fb>>

\* Step 1: qwen_mel_spectrogram and padding to a multiple of CHUNK_SIZE.
MelSpectrogram ==
    /\ t.pc = "mel"
    /\ \E ok \in BOOLEAN, n \in MelChoices :
          IF ~ok THEN
              /\ t' = Abort(t, "mel")
              /\ UNCHANGED heap
          ELSE
              /\ heap' = Malloc(heap, {"mel"})
              /\ t' = [t EXCEPT !.pc = "enc_load",
                                !.n_frames = n,
                                !.padded_frames = n + PadFrames(n),
                                !.mel = PadMel(n),
                                !.ptrs = @ \cup {"mel"}]
    /\ UNCHANGED <<ctxVars, last_error, last_n_tokens, sessions, values, model, conv, fb>>

\* Step 1b: on-demand encoder loading.
LoadEncoder ==
    /\ t.pc = "enc_load"
    /\ \E res \in LevelOutcomes(enc_levels) :
          LET r == LoadOnDemand(sessions, encoder, enc_levels, res,
                                "failed to load encoder on-demand")
          IN  /\ sessions' = r.ss
              /\ encoder' = r.slot
              /\ last_error' = r.err
              /\ t' = IF r.ok
                      THEN [t EXCEPT !.pc = "enc_tensor", !.wrote = @ \/ r.wrote]
                      ELSE Abort([t EXCEPT !.wrote = @ \/ r.wrote],
                                 "CreateSession")
    /\ UNCHANGED <<resources, ld,
                   ctx_state, keep_sessions, prefill, decode, n_layers, ctx_res,
                   last_n_tokens, values, heap, model, conv, fb>>

\* Step 2: the encoder input tensor over the mel buffer.
EncoderInput ==
    /\ t.pc = "enc_tensor"
    /\ \E ok \in BOOLEAN :
          IF ~ok THEN
              /\ t' = Abort(t, "CreateTensor")
              /\ UNCHANGED values
          ELSE
              /\ values' = NewValues(values, 1)
              /\ t' = [t EXCEPT !.pc = "enc_run", !.enc_input = values.next]
    /\ UNCHANGED <<ctxVars, last_error, last_n_tokens, sessions, heap, model, conv, fb>>

\* Step 2: Run of the encoder; on success the mel buffer is freed.  n_frames
\* and padded_frames are not read after this point and are no longer followed.
EncoderRun ==
    /\ t.pc = "enc_run"
    /\ sessions' = RunOn(sessions, encoder)
    /\ \E ok \in BOOLEAN, n \in AudioChoices(t.padded_frames) :
          IF ~ok THEN
              /\ t' = Abort(t, "Run")
              /\ UNCHANGED <<values, heap>>
          ELSE
              /\ values' = NewValues(values, 1)
              /\ heap' = Free(heap, {"mel"})
              /\ t' = [t EXCEPT !.pc = "enc_info",
                                !.enc_output = values.next,
                                !.enc_rows = n,
                                !.n_frames = 0, !.padded_frames = 0,
                                !.mel = Frame0.mel,
                                !.ptrs = @ \ {"mel"}]
    /\ UNCHANGED <<ctxVars, last_error, last_n_tokens, model, conv, fb>>

\* GetTensorTypeAndShape(enc_output, &enc_info)
EncoderShapeInfo ==
    /\ t.pc = "enc_info"
    /\ \E ok \in BOOLEAN :
          IF ~ok THEN
              /\ t' = Abort(t, "query")
              /\ UNCHANGED heap
          ELSE
              /\ heap' = Malloc(heap, {"enc_info"})
              /\ t' = [t EXCEPT !.pc = "enc_dims"]
    /\ UNCHANGED <<ctxVars, last_error, last_n_tokens, sessions, values, model, conv, fb>>

\* GetDimensions, ReleaseTensorTypeAndShapeInfo, n_audio = enc_shape[1]
EncoderDimensions ==
    /\ t.pc = "enc_dims"
    /\ \E ok \in BOOLEAN :
          IF ~ok THEN
              /\ t' = Abort(t, "query")
              /\ UNCHANGED heap
          ELSE
              /\ heap' = Free(heap, {"enc_info"})
              /\ t' = [t EXCEPT !.pc = "enc_data", !.n_audio = t.enc_rows]
    /\ UNCHANGED <<ctxVars, last_error, last_n_tokens, sessions, values, model, conv, fb>>

\* GetTensorMutableData(enc_output), then the encoder session is released
\* unless sessions are kept.
EncoderData ==
    /\ t.pc = "enc_data"
    /\ \E ok \in BOOLEAN :
          IF ~ok THEN
              /\ t' = Abort(t, "query")
              /\ UNCHANGED <<sessions, encoder>>
          ELSE
              LET r == ReleaseAfterStage(sessions, encoder)
              IN  /\ sessions' = r.ss
                  /\ encoder' = r.slot
                  /\ t' = [t EXCEPT !.pc = "pf_load"]
    /\ UNCHANGED <<resources, ld,
                   ctx_state, keep_sessions, prefill, decode, n_layers, ctx_res,
                   last_error, last_n_tokens, values, heap, model, conv, fb>>

\* Variant: the output count is queried in every call.
ProbeNeeded_Always(layers) == TRUE

\* if (ctx->n_layers == 0) { SessionGetOutputCount ... }
ProbeNeeded(layers) == layers = 0

\* Step 2b: on-demand prefill loading and, while ctx->n_layers is 0, the
\* probe of the prefill session's output count.
LoadPrefill ==
    /\ t.pc = "pf_load"
    /\ \E res \in LevelOutcomes(dec_levels), count_ok \in BOOLEAN :
          LET r == LoadOnDemand(sessions, prefill, dec_levels, res,
                                "failed to load decoder_prefill on-demand")
              probe == r.ok /\ ProbeNeeded(n_layers)
          IN  /\ sessions' = r.ss
              /\ prefill' = r.slot
              /\ last_error' = r.err
              /\ n_layers' = IF probe /\ count_ok
                             THEN NLayersOf(model.n_outputs) ELSE n_layers
              /\ t' = IF r.ok /\ (count_ok \/ ~probe)
                      THEN [t EXCEPT !.pc = "alloc", !.wrote = @ \/ r.wrote]
                      ELSE Abort([t EXCEPT !.wrote = @ \/ r.wrote],
                                 IF r.ok THEN "query" ELSE "CreateSession")
    /\ UNCHANGED <<resources, ld,
                   ctx_state, keep_sessions, encoder, decode, ctx_res,
                   last_n_tokens, values, heap, model, conv, fb>>

OutputArrays == {"prefill_outputs", "decode_outputs", "kv_caches"}

Zeros(k) == [i \in 1..k |-> NULL]

\* embed_token_fp16(embed, token_id, hidden, out): row token_id of the
\* embedding matrix, converted to float32
embed_token_fp16(token_id) == [kind |-> "embed", id |-> token_id]

\* row j of the encoder output (audio_embeds)
AudioRow(j) == [kind |-> "audio", id |-> j]

\* Variant: the suffix rows are written right after the prefix.
SuffixOffset_NoAudio(n_audio) == N_PREFIX

\* first row written by the suffix loop: N_PREFIX + n_audio
SuffixOffset(n_audio) == N_PREFIX + n_audio

\* Step 3: the malloc'd buffer of prompt_len rows after the prefix loop, the
\* memcpy of the n_audio encoder rows to row N_PREFIX on, and the suffix loop.
BuildInputEmbeds(n_audio) ==
    LET prompt_len == N_PREFIX + n_audio + N_SUFFIX
        raw == [r \in 1..prompt_len |-> [kind |-> "uninitialised", id |-> 0]]
        pre == [r \in 1..prompt_len |->
                   IF r - 1 \in 0..(N_PREFIX - 1)
                   THEN embed_token_fp16(PROMPT_PREFIX[r]) ELSE raw[r]]
        aud == [r \in 1..prompt_len |->
                   IF r - 1 - N_PREFIX \in 0..(n_audio - 1)
                   THEN AudioRow(r - 1 - N_PREFIX) ELSE pre[r]]
    IN  [r \in 1..prompt_len |->
            IF r - 1 - SuffixOffset(n_audio) \in 0..(N_SUFFIX - 1)
            THEN embed_token_fp16(PROMPT_SUFFIX[r - SuffixOffset(n_audio)])
            ELSE aud[r]]

\* every id of PROMPT_PREFIX and PROMPT_SUFFIX names a row of the matrix
PromptIdsInVocabulary ==
    /\ \A i \in 1..N_PREFIX : InVocabulary(PROMPT_PREFIX[i])
    /\ \A i \in 1..N_SUFFIX : InVocabulary(PROMPT_SUFFIX[i])

\* Sizes from n_layers, the three calloc'd pointer arrays, and Step 3: the
\* prompt embedding buffer of prompt_len rows.  embed_token_fp16 reads its
\* row without a test of token_id: a read past the mapped matrix is
\* undefined, the call goes on with whatever was read or the process ends
\* there ("crashed").
AllocateBuffers ==
    /\ t.pc = "alloc"
    /\ \E got \in SUBSET OutputArrays, emb_ok \in BOOLEAN, crash \in BOOLEAN :
          LET n_kv == 2 * n_layers
              sized == [t EXCEPT !.n_layers = n_layers,
                                 !.ptrs = @ \cup got,
                                 !.prefill_outputs =
                                     IF "prefill_outputs" \in got
                                     THEN Zeros(1 + n_kv) ELSE <<>>,
                                 !.decode_outputs =
                                     IF "decode_outputs" \in got
                                     THEN Zeros(1 + n_kv) ELSE <<>>,
                                 !.kv_caches =
                                     IF "kv_caches" \in got
                                     THEN Zeros(n_kv) ELSE <<>>]
          IN  IF got # OutputArrays THEN
                  /\ emb_ok /\ ~crash
                  /\ heap' = Malloc(heap, got)
                  /\ t' = Abort(sized, "alloc")
              ELSE IF ~emb_ok THEN
                  /\ ~crash
                  /\ heap' = Malloc(heap, got)
                  /\ t' = Abort([sized EXCEPT
                                   !.prompt_len = N_PREFIX + t.n_audio + N_SUFFIX],
                                "alloc")
              ELSE IF crash THEN
                  /\ ~PromptIdsInVocabulary
                  /\ heap' = Malloc(heap, got \cup {"input_embeds"})
                  /\ t' = [sized EXCEPT
                              !.pc = "crashed",
                              !.prompt_len = N_PREFIX + t.n_audio + N_SUFFIX,
                              !.ptrs = @ \cup {"input_embeds"}]
              ELSE
                  /\ heap' = Malloc(heap, got \cup {"input_embeds"})
                  /\ t' = [sized EXCEPT
                              !.pc = "pf_tensor",
                              !.prompt_len = N_PREFIX + t.n_audio + N_SUFFIX,
                              !.input_embeds = BuildInputEmbeds(t.n_audio),
                              !.ptrs = @ \cup {"input_embeds"}]
    /\ UNCHANGED <<ctxVars, last_error, last_n_tokens, sessions, values, model, conv, fb>>

\* Step 4: the prefill input tensor over input_embeds.
PrefillInput ==
    /\ t.pc = "pf_tensor"
    /\ \E ok \in BOOLEAN :
          IF ~ok THEN
              /\ t' = Abort(t, "CreateTensor")
              /\ UNCHANGED values
          ELSE
              /\ values' = NewValues(values, 1)
              /\ t' = [t EXCEPT !.pc = "pf_run", !.prefill_input = values.next]
    /\ UNCHANGED <<ctxVars, last_error, last_n_tokens, sessions, heap, model, conv, fb>>

\* the name arrays of 1 + MAX_DEC_LAYERS * 2 (and 2 + MAX_DEC_LAYERS * 2)
\* entries are written at indices up to 2 * n_layers (and 1 + 2 * n_layers)
NamesOverflow(layers) == 2 * layers > MAX_DEC_LAYERS * 2

\* Step 4: the output names, then Run of the prefill session with
\* prefill_n_outputs outputs.  Writing the names past the end of their arrays
\* is undefined: the call goes on over the damaged stack, or the process ends
\* there ("crashed").  The Run fails when it is asked for more outputs than
\* the model file has.
PrefillRun ==
    /\ t.pc = "pf_run"
    /\ sessions' = RunOn(sessions, prefill)
    /\ \E ok \in BOOLEAN, crash \in BOOLEAN :
          IF crash THEN
              /\ NamesOverflow(t.n_layers)
              /\ ok
              /\ t' = [t EXCEPT !.pc = "crashed"]
              /\ UNCHANGED values
          ELSE IF ~ok \/ 1 + 2 * t.n_layers > model.n_outputs THEN
              /\ t' = Abort(t, "Run")
              /\ UNCHANGED values
          ELSE
              LET n == 1 + 2 * t.n_layers
              IN  /\ values' = NewValues(values, n)
                  /\ t' = [t EXCEPT !.pc = "pf_first",
                                    !.run_base = values.next,
                                    !.prefill_outputs = FreshSeq(values.next, n)]
    /\ UNCHANGED <<ctxVars, last_error, last_n_tokens, heap, model, conv, fb>>

\* Variant: the adopted output slots are not set to NULL.
PrefillHandoff_NoNull(outputs, caches) ==
    [caches |-> [i \in 1..Len(caches) |-> outputs[1 + i]],
     outputs |-> [outputs EXCEPT ![1] = NULL],
     released |-> <<outputs[1]>>]

\* Transfer of the KV outputs into kv_caches: kv_caches[i] = outputs[1 + i];
\* outputs[1 + i] = NULL; then the logits outputs[0] are released and nulled.
\* released: the values passed to ReleaseValue, in order.
PrefillHandoff(outputs, caches) ==
    [caches |-> [i \in 1..Len(caches) |-> outputs[1 + i]],
     outputs |-> Zeros(Len(outputs)),
     released |-> <<outputs[1]>>]

\* First token from the prefill logits, KV handoff, and Step 4b: release of
\* the prefill session unless sessions are kept.  The caches prefill returns
\* hold one position per row of its input.
PrefillFirstToken ==
    /\ t.pc = "pf_first"
    /\ \E ok \in BOOLEAN, first_token \in TokenChoices(<<>>) :
          IF ~ok THEN
              /\ t' = Abort(t, "query")
              /\ UNCHANGED <<values, sessions, prefill>>
          ELSE
              LET h == PrefillHandoff(t.prefill_outputs, t.kv_caches)
                  r == ReleaseAfterStage(sessions, prefill)
              IN  /\ values' = ReleaseValues(values, h.released)
                  /\ sessions' = r.ss
                  /\ prefill' = r.slot
                  /\ t' = [t EXCEPT !.pc = "dc_load",
                                    !.generated = <<first_token>>,
                                    !.past_len = Len(t.input_embeds),
                                    !.kv_caches = h.caches,
                                    !.prefill_outputs = h.outputs]
    /\ UNCHANGED <<resources, ld,
                   ctx_state, keep_sessions, encoder, decode, n_layers, ctx_res,
                   last_error, last_n_tokens, heap, model, conv, fb>>

\* Step 4b: on-demand decode loading.
LoadDecode ==
    /\ t.pc = "dc_load"
    /\ \E res \in LevelOutcomes(dec_levels) :
          LET r == LoadOnDemand(sessions, decode, dec_levels, res,
                                "failed to load decoder_decode on-demand")
          IN  /\ sessions' = r.ss
              /\ decode' = r.slot
              /\ last_error' = r.err
              /\ t' = IF r.ok
                      THEN [t EXCEPT !.pc = "dc_inputs", !.wrote = @ \/ r.wrote]
                      ELSE Abort([t EXCEPT !.wrote = @ \/ r.wrote],
                                 "CreateSession")
    /\ UNCHANGED <<resources, ld,
                   ctx_state, keep_sessions, encoder, prefill, n_layers, ctx_res,
                   last_n_tokens, values, heap, model, conv, fb>>

\* Step 5 set-up: n_generated = 1, token = generated[0], decode_token_buf and
\* the two reusable input tensors.  made: how many of the three were obtained
\* before the first failure.
DecodeInputs ==
    /\ t.pc = "dc_inputs"
    /\ \E made \in 0..3 :
          LET start == [t EXCEPT !.n_generated = 1, !.token = t.generated[1]]
              buf == [start EXCEPT !.ptrs = @ \cup {"decode_token_buf"}]
          IN  /\ heap' = IF made >= 1 THEN Malloc(heap, {"decode_token_buf"})
                         ELSE heap
              /\ values' = IF made >= 2 THEN NewValues(values, made - 1)
                           ELSE values
              /\ t' = CASE made = 0 -> Abort(start, "alloc")
                        [] made = 1 -> Abort(buf, "CreateTensor")
                        [] made = 2 ->
                             Abort([buf EXCEPT !.decode_token_input = values.next],
                                   "CreateTensor")
                        [] OTHER ->
                             [buf EXCEPT !.pc = "dc_loop",
                                         !.decode_token_input = values.next,
                                         !.decode_pos_input = values.next + 1]
    /\ UNCHANGED <<ctxVars, last_error, last_n_tokens, sessions, model, conv, fb>>

\* Variant: the loop runs while step <= MAX_NEW_TOKENS.
LoopContinues_PastEnd(step, token) == step <= MAX_NEW_TOKENS /\ ~is_eos(token)

\* Variant: the loop bound is MAX_NEW_TOKENS instead of MAX_NEW_TOKENS - 1.
LoopContinues_OffByOne(step, token) == step < MAX_NEW_TOKENS /\ ~is_eos(token)

\* for (step = 0; step < MAX_NEW_TOKENS - 1; step++) { if (is_eos(token)) break;
LoopContinues(step, token) == step < MAX_NEW_TOKENS - 1 /\ ~is_eos(token)

\* Variant: the position is counted from 1.
DecodePosition_OneBased(prompt_len, step) == prompt_len + step + 1

\* Variant: the position is counted on from the previous call's token count.
DecodePosition_FromLastCount(prompt_len, step) ==
    prompt_len + step + last_n_tokens

\* decode_pos_val = (int64_t)(prompt_len + step);
DecodePosition(prompt_len, step) == prompt_len + step

\* Loop head and body up to the Run: position = prompt_len + step, memset of
\* decode_outputs, Run of the decode session.
DecodeRun ==
    /\ t.pc = "dc_loop"
    /\ IF LoopContinues(t.step, t.token) THEN
          /\ sessions' = RunOn(sessions, decode)
          /\ \E ok \in BOOLEAN :
                LET n == 1 + 2 * t.n_layers
                    body == [t EXCEPT !.decode_pos_val =
                                          DecodePosition(t.prompt_len, t.step),
                                      !.decode_outputs = Zeros(n),
                                      !.decode_runs = @ + 1]
                IN  IF ~ok THEN
                        /\ t' = Abort(body, "Run")
                        /\ UNCHANGED values
                    ELSE
                        /\ values' = NewValues(values, n)
                        /\ t' = [body EXCEPT
                                    !.pc = "dc_next",
                                    !.run_base = values.next,
                                    !.decode_outputs = FreshSeq(values.next, n)]
       ELSE
          /\ t' = [t EXCEPT !.pc = "detok"]
          /\ UNCHANGED <<sessions, values>>
    /\ UNCHANGED <<ctxVars, last_error, last_n_tokens, heap, model, conv, fb>>

\* Variant: the old caches are kept and the new KV outputs released.
KvRotate_KeepOld(outputs, caches) ==
    [caches |-> caches,
     outputs |-> Zeros(Len(outputs)),
     released |-> Tail(outputs) \o <<outputs[1]>>]

\* Free old KV caches, keep new ones: for each i, ReleaseValue(kv_caches[i]);
\* kv_caches[i] = outputs[1 + i]; outputs[1 + i] = NULL; then the logits
\* outputs[0] are released and nulled.
KvRotate(outputs, caches) ==
    [caches |-> [i \in 1..Len(caches) |-> outputs[1 + i]],
     outputs |-> Zeros(Len(outputs)),
     released |-> caches \o <<outputs[1]>>]

\* Rest of the loop body: next token from the logits, append, KV rotation.
\* The caches a decode Run returns hold one position more than those passed
\* to it.
DecodeNext ==
    /\ t.pc = "dc_next"
    /\ \E ok \in BOOLEAN, next_token \in TokenChoices(t.generated) :
          IF ~ok THEN
              /\ t' = Abort(t, "query")
              /\ UNCHANGED values
          ELSE
              LET h == KvRotate(t.decode_outputs, t.kv_caches)
              IN  /\ values' = ReleaseValues(values, h.released)
                  /\ t' = [t EXCEPT !.pc = "dc_loop",
                                    !.token = next_token,
                                    !.generated = Append(@, next_token),
                                    !.n_generated = @ + 1,
                                    !.past_len = IF h.caches = t.kv_caches
                                                 THEN @ ELSE @ + 1,
                                    !.kv_caches = h.caches,
                                    !.decode_outputs = h.outputs,
                                    !.step = @ + 1]
    /\ UNCHANGED <<ctxVars, last_error, last_n_tokens, sessions, heap, model, conv, fb>>

\* After the loop: last_n_tokens, trailing-EOS strip, token pieces to text,
\* whitespace trim, result.
Detokenization ==
    /\ t.pc = "detok"
    /\ last_n_tokens' = t.n_generated
    /\ LET n == StripEos(t.generated, t.n_generated)
           text == Detokenize(t.generated, n)
       IN  t' = [t EXCEPT !.pc = "cleanup",
                          !.n_stripped = n,
                          !.text = text,
                          !.ret = "text",
                          !.result = Trim(text)]
    /\ UNCHANGED <<ctxVars, last_error, sessions, values, heap, model, conv, fb>>

\* The values the cleanup label passes to ReleaseValue, in order.
CleanupReleases(f) ==
    NonNullSeq(<<f.enc_input, f.enc_output, f.prefill_input,
                 f.decode_token_input, f.decode_pos_input>>)
    \o NonNullSeq(f.prefill_outputs)
    \o NonNullSeq(f.decode_outputs)
    \o NonNullSeq(f.kv_caches)

\* The blocks the cleanup label frees (free(NULL) does nothing).
CleanupFrees(f) ==
    f.ptrs \cap {"prefill_outputs", "decode_outputs", "kv_caches",
                 "decode_token_buf", "input_embeds", "generated"}

\* Variant: the final teardown forgets the decode session.
TeardownSessions_SkipDecode(ss, slots) ==
    IF ~keep_sessions
    THEN [ss |-> FreeSessions(ss, <<slots[1], slots[2]>>),
          slots |-> <<NULL, NULL, slots[3]>>]
    ELSE [ss |-> ss, slots |-> slots]

\* The session teardown at the end of qwen_onnx_transcribe.
TeardownSessions(ss, slots) ==
    IF ~keep_sessions
    THEN [ss |-> FreeSessions(ss, slots), slots |-> <<NULL, NULL, NULL>>]
    ELSE [ss |-> ss, slots |-> slots]

\* cleanup: ... return result;
Cleanup ==
    /\ t.pc = "cleanup"
    /\ values' = ResetIds(ReleaseValues(values, CleanupReleases(t)))
    /\ heap' = Free(heap, CleanupFrees(t))
    /\ LET r == TeardownSessions(sessions, <<encoder, prefill, decode>>)
       IN  /\ sessions' = ResetIds(r.ss)
           /\ encoder' = r.slots[1]
           /\ prefill' = r.slots[2]
           /\ decode' = r.slots[3]
    /\ t' = [t EXCEPT !.pc = "idle",
                      !.ret = IF t.ret = "text" THEN "text" ELSE "NULL"]
    /\ UNCHANGED <<resources, ld,
                   ctx_state, keep_sessions, n_layers, ctx_res, last_error,
                   last_n_tokens, model, conv, fb>>

Next ==
    \/ qwen_onnx_load
    \/ LoadEnvironment
    \/ LoadTokenizer
    \/ LoadEmbeddings
    \/ LoadSessions
    \/ LoadReturn
    \/ qwen_onnx_free
    \/ Transcribe
    \/ ArgumentGuard
    \/ MelSpectrogram
    \/ LoadEncoder
    \/ EncoderInput
    \/ EncoderRun
    \/ EncoderShapeInfo
    \/ EncoderDimensions
    \/ EncoderData
    \/ LoadPrefill
    \/ AllocateBuffers
    \/ PrefillInput
    \/ PrefillRun
    \/ PrefillFirstToken
    \/ LoadDecode
    \/ DecodeInputs
    \/ DecodeRun
    \/ DecodeNext
    \/ Detokenization
    \/ Cleanup

Spec == Init /\ [][Next]_vars

\* The same program with a backend that never ends the stream before the
\* token limit, on a host that transcribes once.
InitLong ==
    /\ InitCommon
    /\ conv = Conv0
    /\ fb = Fallback0
    /\ model \in [n_outputs : {3}, stream : {"long"}, seed : {0},
                  one_shot : {TRUE}, embed_rows : EmbedRows]

SpecLong == InitLong /\ [][Next]_vars

\* decoder models with one layer and with one layer more than MAX_DEC_LAYERS
DeepOutputCounts == {3, 1 + 2 * (MAX_DEC_LAYERS + 1)}

\* The same program on such model files, on a host that transcribes once.
InitDeep ==
    /\ InitCommon
    /\ conv = Conv0
    /\ fb = Fallback0
    /\ model \in [n_outputs : DeepOutputCounts, stream : {"free"},
                  seed : {0}, one_shot : {TRUE}, embed_rows : EmbedRows]

SpecDeep == InitDeep /\ [][Next]_vars

\* The same program with a deterministic backend, on a host that transcribes
\* any number of times.
InitFixed ==
    /\ InitCommon
    /\ conv = Conv0
    /\ fb = Fallback0
    /\ model \in [n_outputs : {3}, stream : {"fixed"}, seed : FixedSeeds,
                  one_shot : {FALSE}, embed_rows : EmbedRows]

SpecFixed == InitFixed /\ [][Next]_vars

\* The two conversions applied in turn to one 16-bit pattern.
HalfPatterns == 0..65535

\* data[i] = fp16_to_f32(buf[i]);
ConvertToSingle ==
    /\ conv.pc = "half"
    /\ conv' = [conv EXCEPT !.pc = "single", !.f = fp16_to_f32(conv.h)]
    /\ UNCHANGED <<ctxVars, last_error, last_n_tokens, sessions, values, heap,
                   model, fb, t>>

\* the fp32 file branch of load_npy_fp16 on that float
ConvertToHalf ==
    /\ conv.pc = "single"
    /\ conv' = [conv EXCEPT !.pc = "back", !.out = fp32_to_fp16(conv.f)]
    /\ UNCHANGED <<ctxVars, last_error, last_n_tokens, sessions, values, heap,
                   model, fb, t>>

InitHalf ==
    /\ InitCommon
    /\ ~keep_sessions
    /\ model = [n_outputs |-> 3, stream |-> "free", seed |-> 0,
                one_shot |-> TRUE,
                embed_rows |-> CHOOSE r \in EmbedRows : TRUE]
    /\ conv \in [pc : {"half"}, h : HalfPatterns, f : {Conv0.f}, out : {0}]
    /\ fb = Fallback0

NextHalf == ConvertToSingle \/ ConvertToHalf

SpecHalf == InitHalf /\ [][NextHalf]_vars

\* create_session_with_fallback on its own: any list of up to MaxLevels
\* optimization levels, any answers of the backend.
LevelLists ==
    UNION {[1..k -> {ORT_DISABLE_ALL, ORT_ENABLE_BASIC}] : k \in 1..MaxLevels}

\* One call, from entry to return.
FallbackCall ==
    /\ fb.pc = "call"
    /\ LET r == create_session_with_fallback(fb.levels, fb.res, 1)
       IN  /\ fb' = [fb EXCEPT !.pc = "done", !.ok = r.ok,
                               !.attempted = r.attempted]
           /\ sessions' = IF r.ok THEN NewSession(sessions) ELSE sessions
           /\ last_error' = IF r.err # "" THEN r.err ELSE last_error
    /\ UNCHANGED <<ctxVars, last_n_tokens, values, heap, model, conv, t>>

InitFallback ==
    /\ InitCommon
    /\ ~keep_sessions
    /\ model = [n_outputs |-> 3, stream |-> "free", seed |-> 0,
                one_shot |-> TRUE,
                embed_rows |-> CHOOSE r \in EmbedRows : TRUE]
    /\ conv = Conv0
    /\ \E levels \in LevelLists :
          fb \in [pc : {"call"}, levels : {levels}, res : LevelOutcomes(levels),
                  ok : {FALSE}, attempted : {<<>>}]

NextFallback == FallbackCall

SpecFallback == InitFallback /\ [][NextFallback]_vars

\* prefill output counts that are not 1 + 2*L for any L >= 1 (none, the
\* logits alone, an even count), beside a well-formed one
ShapeOutputCounts == {0, 1, 3, 4}

\* The same program on such model files, on a host that transcribes once.
InitShape ==
    /\ InitCommon
    /\ conv = Conv0
    /\ fb = Fallback0
    /\ model \in [n_outputs : ShapeOutputCounts, stream : {"free"},
                  seed : {0}, one_shot : {TRUE}, embed_rows : EmbedRows]

SpecShape == InitShape /\ [][Next]_vars

\* Row counts an embedding file may declare (any r > 0 passes the load): a
\* single row, a small vocabulary, one row short of the largest prompt id,
\* just enough for it, and the full vocabulary.
VocabRows == {1, 1000, 151670, 151671, 151936}

\* The same program on model directories with such embedding files, on a
\* host that transcribes once.
InitVocab ==
    /\ InitCommon
    /\ conv = Conv0
    /\ fb = Fallback0
    /\ model \in [n_outputs : {3}, stream : {"free"}, seed : {0},
                  one_shot : {TRUE}, embed_rows : VocabRows]

SpecVocab == InitVocab /\ [][Next]_vars

(* ------------------------------------------------------------------ *)
(* Properties                                                           *)
(* ------------------------------------------------------------------ *)
Slots == <<encoder, prefill, decode>>

LoadedSlots == {i \in 1..3 : Slots[i] # NULL}

InEosSet(token) == token \in SeqRange(EOS_TOKENS)

AllNull(s) == \A i \in 1..Len(s) : s[i] = NULL

NonNull(s) == {x \in SeqRange(s) : x # NULL}

\* C1: with keep_sessions = false, when the encoder Run is issued only the
\* encoder session is loaded, when the prefill Run is issued only the prefill
\* session, and when a decode Run is issued only the decode session.
C1_OneSessionAtEachRun ==
    ~keep_sessions =>
        /\ t.pc = "enc_run" =>
               encoder # NULL /\ LoadedSlots = {1} /\ sessions.live = {encoder}
        /\ t.pc = "pf_run" =>
               prefill # NULL /\ LoadedSlots = {2} /\ sessions.live = {prefill}
        /\ (t.pc = "dc_loop" /\ t.step < MAX_NEW_TOKENS - 1 /\ ~InEosSet(t.token)) =>
               decode # NULL /\ LoadedSlots = {3} /\ sessions.live = {decode}

\* a second decode Run has been issued without kept sessions
C1_Witness == ~keep_sessions /\ t.pc = "dc_next" /\ t.decode_runs = 2

\* C2: with keep_sessions = false, in every state from load to free at most
\* one of the three session slots is loaded, and at most one session is live.
C2_AtMostOneSession ==
    ~keep_sessions =>
        /\ Cardinality(LoadedSlots) <= 1
        /\ Cardinality(sessions.live) <= 1
        /\ \A i \in LoadedSlots : Slots[i] \in sessions.live

\* the decode session is the loaded one while prefill's caches are in use
C2_Witness ==
    ~keep_sessions /\ LoadedSlots = {3} /\ t.pc = "dc_loop" /\ t.step = 1

\* C3: with keep_sessions = false, when qwen_onnx_transcribe has returned, by
\* success or by failure at any stage, all three session slots are absent and
\* no session is live, as after load, and a further call can start.
C3_NoSessionAfterReturn ==
    (~keep_sessions /\ ctx_state = "loaded" /\ t.pc = "idle") =>
        /\ LoadedSlots = {}
        /\ sessions.live = {}
        /\ ENABLED Transcribe

\* a call that failed inside the decode loop has returned
C3_Witness ==
    /\ ~keep_sessions /\ ctx_state = "loaded" /\ t.pc = "idle"
    /\ t.ret = "NULL" /\ t.decode_runs >= 1

C5_KvHandoff ==
    LET n_kv == 2 * t.n_layers
        held == /\ Len(t.kv_caches) = n_kv
                /\ n_kv > 0
                /\ \A i \in 1..n_kv :
                       /\ t.kv_caches[i] = t.run_base + i
                       /\ t.kv_caches[i] \in values.live
                /\ t.run_base \notin values.live
    IN  /\ (t.pc \in {"dc_load", "dc_inputs"} \/ (t.pc = "dc_loop" /\ t.step = 0)) =>
               /\ held
               /\ Len(t.prefill_outputs) = 1 + n_kv
               /\ AllNull(t.prefill_outputs)
        /\ (t.pc = "dc_loop" /\ t.step >= 1) =>
               /\ held
               /\ Len(t.decode_outputs) = 1 + n_kv
               /\ AllNull(t.decode_outputs)
               /\ \A v \in values.live \ SeqRange(t.kv_caches) : v < t.run_base

\* two decode steps have completed with two layers
C5_Witness == t.pc = "dc_loop" /\ t.step = 2 /\ t.n_layers = 2

\* C6: no OrtValue is released twice, and when qwen_onnx_transcribe has
\* returned, on success or after a failure at any Run or tensor call, every
\* OrtValue it created or received has been released.
C6_ValuesReleasedOnce ==
    /\ ~values.bad
    /\ t.pc = "idle" => values.live = {}

\* a call has returned after failing to read the logits of a decode Run, when
\* it held the old caches and the new outputs
C6_Witness ==
    /\ t.pc = "idle" /\ t.ret = "NULL"
    /\ NonNull(t.decode_outputs) # {} /\ NonNull(t.kv_caches) # {}

\* C7: when qwen_onnx_transcribe has returned no result, every heap block it
\* allocated has been freed.
C7_HeapFreedOnFailure ==
    (t.pc = "idle" /\ t.ret = "NULL") => heap.live = {}

\* C8: the decode loop issues at most MAX_NEW_TOKENS - 1 decode Runs, a decode
\* Run is issued only on a current token outside the EOS set, and once the
\* current token is an EOS (the prefill token included) no Run follows it.
C8_DecodeLoopBounded ==
    /\ t.decode_runs <= MAX_NEW_TOKENS - 1
    /\ t.decode_runs <= t.n_generated
    /\ t.pc = "dc_next" => ~InEosSet(t.token)
    /\ (t.n_generated >= 1 /\ InEosSet(t.token)) =>
           /\ t.token = t.generated[t.n_generated]
           /\ t.decode_runs = t.n_generated - 1
    /\ (t.generated # <<>> /\ InEosSet(t.generated[1])) => t.decode_runs = 0

\* the loop has ended by its bound, after MAX_NEW_TOKENS - 1 Runs, on a stream
\* without EOS
C8_Witness ==
    /\ t.pc = "detok" /\ t.decode_runs = MAX_NEW_TOKENS - 1
    /\ ~InEosSet(t.token)

EosPositions(generated) == {i \in 1..Len(generated) : InEosSet(generated[i])}

Min(S) == CHOOSE x \in S : \A y \in S : x <= y

\* C9: when a call returns text and the first EOS of the stream is at index k
\* (0-based; k = 0 is the prefill token), the stream has k + 1 tokens,
\* last_n_tokens is k + 1 and k tokens remain after the trailing-EOS strip.
C9_FirstEosEndsStream ==
    (t.ret = "text" /\ EosPositions(t.generated) # {}) =>
        LET k == Min(EosPositions(t.generated)) - 1
        IN  /\ Len(t.generated) = k + 1
            /\ t.n_generated = k + 1
            /\ last_n_tokens = k + 1
            /\ t.n_stripped = k

\* the EOS came at index 3: four tokens generated, three after the strip
C9_Witness ==
    /\ t.pc = "idle" /\ t.ret = "text"
    /\ Len(t.generated) = 4 /\ t.n_generated = 4 /\ t.n_stripped = 3
    /\ InEosSet(t.generated[4])

\* the pieces of the tokens generated[lo..hi] (1-based) other than skip
RECURSIVE PiecesExcept(_, _, _, _)
PiecesExcept(generated, lo, hi, skip) ==
    IF lo > hi THEN <<>>
    ELSE (IF generated[lo] \in skip THEN <<>>
          ELSE qwen_tokenizer_decode(generated[lo]))
         \o PiecesExcept(generated, lo + 1, hi, skip)

\* out is text without its leading and trailing spaces, tabs and newlines
IsTrimOf(out, text) ==
    LET ws == {" ", "\t", "\n"}
        keep == {i \in 1..Len(text) : text[i] \notin ws}
    IN  IF keep = {} THEN out = <<>>
        ELSE out = SubSeq(text, Min(keep), CHOOSE x \in keep : \A y \in keep : y <= x)

MarkerPositions(generated, n) ==
    {i \in 1..n : generated[i] = QWEN_TOKEN_ASR_TEXT}

\* C10 as stated: for the marker at any position k of the stripped stream, the
\* result is the trimmed concatenation of the pieces of all tokens after k.
C10_AllPiecesAfterMarker ==
    t.ret = "text" =>
        \A k \in MarkerPositions(t.generated, t.n_stripped) :
            IsTrimOf(t.result,
                     PiecesExcept(t.generated, k + 1, t.n_stripped, {}))

\* C10, amended: when the marker first appears at position k of the stripped
\* stream, the result is the trimmed concatenation of the pieces of the tokens
\* after k other than further occurrences of the marker; the tokens before k
\* contribute nothing.
C10_PiecesAfterFirstMarker ==
    (t.ret = "text" /\ MarkerPositions(t.generated, t.n_stripped) # {}) =>
        LET k == Min(MarkerPositions(t.generated, t.n_stripped))
        IN  IsTrimOf(t.result,
                     PiecesExcept(t.generated, k + 1, t.n_stripped,
                                  {QWEN_TOKEN_ASR_TEXT}))

\* a token before the marker and a space after it: the token before is dropped
\* and the trim leaves the empty string
C10_Witness ==
    /\ t.pc = "idle" /\ t.ret = "text"
    /\ t.n_stripped = 3
    /\ t.generated[1] = TOK_A /\ t.generated[2] = QWEN_TOKEN_ASR_TEXT
    /\ t.generated[3] = TOK_SPACE
    /\ t.result = <<>>

\* the pieces, in stream order, of the tokens of generated[lo..hi] with id
\* below floor
RECURSIVE PiecesBelow(_, _, _, _)
PiecesBelow(generated, lo, hi, floor) ==
    IF lo > hi THEN <<>>
    ELSE (IF generated[lo] < floor THEN qwen_tokenizer_decode(generated[lo])
          ELSE <<>>)
         \o PiecesBelow(generated, lo + 1, hi, floor)

\* C11: when the marker does not appear in the generated stream, the result
\* is the trimmed concatenation, in stream order, of the pieces of exactly the
\* tokens with id below 151643; tokens at or above 151643 contribute nothing.
C11_FallbackPiecesBelowFloor ==
    (t.ret = "text" /\ QWEN_TOKEN_ASR_TEXT \notin SeqRange(t.generated)) =>
        IsTrimOf(t.result,
                 PiecesBelow(t.generated, 1, Len(t.generated), 151643))

\* no marker; a space, a special token and a letter before the EOS: the
\* result is the letter alone
C11_Witness ==
    /\ t.pc = "idle" /\ t.ret = "text"
    /\ t.generated = <<TOK_SPACE, TOK_SPECIAL, TOK_A, EOS_TOKENS[2]>>
    /\ t.result = <<"a">>

\* C12: a qwen_onnx_transcribe call whose ctx is NULL, whose samples is NULL
\* or whose n_samples is <= 0 returns NULL at its guard and changes nothing:
\* the context with its sessions, the backend's sessions and values (so no
\* session is created or released and no Run is issued), the heap, the last
\* token count and the last-error buffer stay as they were.
C12_GuardedCallChangesNothing ==
    [][(t.pc = "guard" /\
        (t.ctx = NULL \/ t.samples = NULL \/ t.n_samples <= 0)) =>
           /\ t'.pc = "idle" /\ t'.ret = "NULL"
           /\ UNCHANGED <<ctxVars, sessions, values, heap, last_n_tokens,
                          last_error, model>>]_vars

\* a call with n_samples = 0 on a loaded context has returned, after an
\* earlier call that produced tokens
C12_Witness ==
    /\ t.pc = "idle" /\ t.ret = "NULL"
    /\ t.ctx # NULL /\ t.samples # NULL /\ t.n_samples = 0
    /\ ctx_state = "loaded" /\ last_n_tokens > 0

\* C13: when a call has returned NULL because a Run failed or because a
\* session could not be created, set_last_error has been called during that
\* call and the buffer holds the message of that failure.
C13_BackendFailureReported ==
    (t.pc = "idle" /\ t.ret = "NULL" /\ t.cause \in {"Run", "CreateSession"}) =>
        /\ t.wrote
        /\ last_error # ""

\* C14: while no error has occurred the last-error buffer is empty: after a
\* qwen_onnx_load that returned a context, and after a qwen_onnx_transcribe
\* call on it that returned text, last_error_buf is "".  Stated for a host
\* that transcribes at most once (SpecLong), where a loaded context with no
\* call yet, or with its one call returned as text, has seen no error since
\* qwen_onnx_load cleared the buffer.
C14_NoErrorEmptyBuffer ==
    (ctx_state = "loaded" /\ t.pc = "idle" /\ t.ret \in {"none", "text"}) =>
        last_error = ""

\* C15: a call returns text only if no stage of it failed, every decode Run
\* it issued succeeded (each token after the first comes from one Run) and
\* the loop ended on an EOS token or at the token limit; a call in which any
\* stage failed returns NULL and no text, whatever tokens it had generated.
C15_NoPartialResult ==
    /\ t.ret = "text" =>
           /\ t.cause = "none"
           /\ Len(t.generated) >= 1
           /\ t.decode_runs = Len(t.generated) - 1
           /\ \/ InEosSet(t.generated[Len(t.generated)])
              \/ t.step = MAX_NEW_TOKENS - 1
    /\ t.cause # "none" => (t.ret # "text" /\ t.result = <<>>)
    /\ (t.pc = "idle" /\ t.cause # "none") => t.ret = "NULL"

\* a decode Run failed after two tokens had been generated: NULL is returned
C15_Witness ==
    /\ t.pc = "idle" /\ t.ret = "NULL" /\ t.cause = "Run"
    /\ Len(t.generated) = 2 /\ t.decode_runs = 2
    /\ t.result = <<>>

\* C16: when qwen_onnx_load has failed at any step it returns NULL, and on
\* that return nothing it acquired is left: the environment, the memory info,
\* the tokenizer, the mmap region, the model_dir copy, the context and every
\* session created have each been released, and none of them twice.
C16_LoadFailureReleasesAll ==
    /\ ~resources.bad
    /\ ld.fail # "none" => (ld.pc = "ld_ret" /\ ld.ret = "NULL")
    /\ (ld.pc = "ld_ret" /\ ld.ret = "NULL") =>
           /\ ctx_state = "none"
           /\ resources.live = {}
           /\ sessions.live = {} /\ ~sessions.bad
           /\ ctx_res = {}
           /\ encoder = NULL /\ prefill = NULL /\ decode = NULL

\* the output-count query failed after everything, the three sessions
\* included, had been acquired
C16_Witness ==
    /\ ld.pc = "ld_ret" /\ ld.ret = "NULL"
    /\ ld.fail = "SessionGetOutputCount"
    /\ keep_sessions /\ resources.live = {}

\* the embedding file qwen_onnx_load selected
SelectedEmbedFile ==
    IF ld.fp16_file # "missing" THEN ld.fp16_file ELSE ld.plain_file

\* C17: the embedding file chosen is embed_tokens.fp16.npy if it exists and
\* embed_tokens.npy otherwise; when the chosen file does not declare dtype
\* <f2 the load fails with no context and no region left mapped, and a
\* context only ever holds a mapping of a file that declares <f2 (there is
\* no copy of the matrix).
C17_EmbeddingsMappedFp16Only ==
    /\ ld.embed_path # "" =>
           /\ ld.embed_path = IF ld.fp16_file # "missing"
                              THEN "embed_tokens.fp16.npy"
                              ELSE "embed_tokens.npy"
           /\ ~(SelectedEmbedFile \in {"fp16_noshape", "fp16"}) =>
                  /\ ld.pc = "ld_ret" /\ ld.ret = "NULL" /\ ld.fail = "mmap"
                  /\ ctx_state = "none"
                  /\ resources.live = {} /\ ~resources.bad
                  /\ last_error = "failed to mmap embed_tokens"
           /\ "embed_mmap" \in ctx_res => SelectedEmbedFile = "fp16"
    /\ resources.live \subseteq CtxResources
    /\ "embed_mmap" \in resources.live <=> "embed_mmap" \in ctx_res

\* embed_tokens.fp16.npy is absent and embed_tokens.npy holds float32 data:
\* the load has failed at the mapping
C17_Witness ==
    /\ ld.pc = "ld_ret" /\ ld.ret = "NULL" /\ ld.fail = "mmap"
    /\ ld.fp16_file = "missing" /\ ld.plain_file = "fp32"
    /\ ld.embed_path = "embed_tokens.npy"

\* C18: after a qwen_onnx_transcribe call that passed its argument guard has
\* returned, with text or with NULL, last_n_tokens is the number of tokens
\* that call generated.
C18_LastTimingOfLastCall ==
    (t.pc = "idle" /\ t.ret \in {"text", "NULL"} /\
     t.ctx # NULL /\ t.samples # NULL /\ t.n_samples > 0) =>
        last_n_tokens = t.n_generated

\* C19: the prompt buffer passed to prefill has prompt_len = 9 + n_audio + 6
\* rows: rows 0..8 are the embeddings of 151644, 8948, 198, 151645, 198,
\* 151644, 872, 198, 151669 in that order, rows 9..9+n_audio-1 the encoder
\* output rows in order, and the last 6 rows the embeddings of 151670,
\* 151645, 198, 151644, 77091, 198 in that order.
C19_PromptLayout ==
    t.input_embeds # <<>> =>
        LET prefix == <<151644, 8948, 198, 151645, 198, 151644, 872, 198, 151669>>
            suffix == <<151670, 151645, 198, 151644, 77091, 198>>
            n == t.n_audio
        IN  /\ n >= 0
            /\ t.prompt_len = 9 + n + 6
            /\ Len(t.input_embeds) = t.prompt_len
            /\ \A i \in 0..8 :
                   t.input_embeds[i + 1] = [kind |-> "embed", id |-> prefix[i + 1]]
            /\ \A j \in 0..(n - 1) :
                   t.input_embeds[9 + j + 1] = [kind |-> "audio", id |-> j]
            /\ \A i \in 0..5 :
                   t.input_embeds[9 + n + i + 1] =
                       [kind |-> "embed", id |-> suffix[i + 1]]

\* the prefill Run is about to be issued on a prompt with two audio rows
C19_Witness ==
    /\ t.pc = "pf_run" /\ t.n_audio = 2
    /\ Len(t.input_embeds) = 17

\* C20: in every state ctx->n_layers, and the n_layers a call works with, is
\* at most MAX_DEC_LAYERS = 28, whatever output count the prefill session
\* reports, so the name arrays are never written past their end.
C20_LayersWithinArrays ==
    /\ n_layers <= 28
    /\ t.n_layers <= 28
    /\ t.pc # "crashed"

\* the output count is 1 + 2*L for some L >= 1
WellFormedOutputCount(n) == \E L \in 1..n : n = 1 + 2 * L

\* C21: when the prefill session reports an output count that is not 1 + 2*L
\* for some L >= 1, no qwen_onnx_transcribe call gets past the prefill Run or
\* into the decode loop, and none returns text: the call aborts and returns
\* NULL.
C21_BadOutputCountAborts ==
    ~WellFormedOutputCount(model.n_outputs) =>
        /\ t.pc \notin {"pf_first", "dc_load", "dc_inputs", "dc_loop",
                        "dc_next", "detok"}
        /\ t.ret # "text"

\* C22: with a deterministic backend, every qwen_onnx_transcribe call on a
\* context that returns text returns the token stream and the text of the
\* earlier calls on that context (same samples) that returned text, whatever
\* happened in between and whether sessions are kept or not.
C22_GreedyDeterminism ==
    (t.ret = "text" /\ t.prev.generated # <<>>) =>
        /\ t.generated = t.prev.generated
        /\ t.result = t.prev.result

\* a call has returned text as an earlier one did, the sessions having been
\* released in between and a failure having been reported in between
C22_Witness ==
    /\ t.pc = "idle" /\ t.ret = "text" /\ ~keep_sessions
    /\ Len(t.prev.generated) >= 3 /\ Len(t.generated) >= 3
    /\ last_error = "failed to load decoder_decode on-demand"

\* the 16-bit pattern is a NaN: exponent field 31, mantissa not 0
IsHalfNaN(h) == (h \div 1024) % 32 = 31 /\ h % 1024 # 0

\* C23: for every 16-bit pattern that is not a NaN, fp16_to_f32 followed by
\* the fp32-to-fp16 path of load_npy_fp16 gives the same 16 bits or the
\* neighbouring pattern of the same sign (one unit in the last place away);
\* signed zeros and signed infinities come back bit for bit.
C23_HalfRoundTrip ==
    (conv.pc = "back" /\ ~IsHalfNaN(conv.h)) =>
        /\ \/ conv.out = conv.h
           \/ /\ conv.out \div 32768 = conv.h \div 32768
              /\ conv.out - conv.h \in {-1, 1}
        /\ conv.h % 32768 \in {0, 31744} => conv.out = conv.h

\* C24: create_session_with_fallback calls CreateSession with the levels in
\* list order; it returns success at the first level whose CreateSession
\* succeeds, with no later level attempted; it returns failure only after
\* CreateSession has been attempted and has failed at every level of the
\* list; with the decoder's list DISABLE_ALL is attempted only after
\* ENABLE_BASIC failed, and with the encoder's list only DISABLE_ALL is.
C24_FallbackOrder ==
    fb.pc = "done" =>
        LET a == fb.attempted
            n == Len(fb.levels)
        IN  /\ Len(a) <= n
            /\ \A i \in 1..Len(a) : a[i] = fb.levels[i]
            /\ fb.ok =>
                   /\ Len(a) >= 1
                   /\ fb.res[Len(a)] = "ok"
                   /\ \A i \in 1..(Len(a) - 1) : fb.res[i] = "fail"
                   /\ Cardinality(sessions.live) = 1
            /\ ~fb.ok =>
                   /\ Len(a) = n
                   /\ \A i \in 1..n : fb.res[i] = "fail"
                   /\ sessions.live = {}
            /\ fb.levels = <<ORT_ENABLE_BASIC, ORT_DISABLE_ALL>> =>
                   (Len(a) = 2 => fb.res[1] = "fail")
            /\ fb.levels = <<ORT_DISABLE_ALL>> =>
                   a \in {<<>>, <<ORT_DISABLE_ALL>>}

NamedTensors ==
    {t.enc_input, t.enc_output, t.prefill_input, t.decode_token_input,
     t.decode_pos_input}

\* C26: between two decode steps exactly one set of 2 * n_layers cache
\* values is live; at every decode Run the position input is prompt_len +
\* step, which is the number of positions held in the caches passed to that
\* Run: the prompt rows from prefill plus one per completed decode step, with
\* prompt_len = 9 + n_audio + 6.
C26_CachesAndPosition ==
    /\ t.pc = "dc_loop" =>
           /\ Len(t.kv_caches) = 2 * t.n_layers
           /\ Cardinality(SeqRange(t.kv_caches)) = 2 * t.n_layers
           /\ NULL \notin SeqRange(t.kv_caches)
           /\ values.live \ NamedTensors = SeqRange(t.kv_caches)
    /\ t.pc = "dc_next" =>
           /\ t.decode_pos_val = t.prompt_len + t.step
           /\ t.decode_pos_val = t.past_len
           /\ t.past_len = Len(t.input_embeds) + (t.decode_runs - 1)
           /\ t.step = t.decode_runs - 1
           /\ t.prompt_len = 9 + t.n_audio + 6

\* the third decode Run of a call with two audio rows, at position 19
C26_Witness ==
    /\ t.pc = "dc_next" /\ t.step = 2 /\ t.n_audio = 2
    /\ t.decode_pos_val = 19 /\ t.past_len = 19

\* C27: the generated stream never has more than MAX_NEW_TOKENS = 1024
\* entries: prefill writes index 0, each decode step writes the next index
\* once, and every write is at an index below 1024, also on a stream that
\* never produces an EOS.
C27_GeneratedWithinArray ==
    /\ Len(t.generated) <= 1024
    /\ t.n_generated <= 1024
    /\ t.pc \in {"dc_load", "dc_inputs"} => Len(t.generated) = 1
    /\ t.pc \in {"dc_loop", "dc_next", "detok"} =>
           /\ Len(t.generated) = t.n_generated
           /\ t.n_generated = 1 + t.step
    \* the write generated[n_generated++] that follows the Run
    /\ t.pc = "dc_next" => t.n_generated < 1024

\* the array is full: 1024 tokens, none of them an EOS
C27_Witness ==
    /\ t.pc = "detok" /\ Len(t.generated) = 1024 /\ t.n_generated = 1024
    /\ \A i \in 1..1024 : ~InEosSet(t.generated[i])

\* C28: padded_frames is the smallest multiple of 100 that is at least
\* n_frames (317 gives 400, a multiple of 100 stays as it is); in the encoder
\* input the first n_frames frames of every bin are the extractor's output
\* for that bin and frame, and the frames added after them are zero.
C28_PaddedMel ==
    t.pc \in {"enc_load", "enc_tensor", "enc_run"} =>
        LET n == t.n_frames
            padded == t.padded_frames
        IN  /\ n >= 0
            /\ padded % 100 = 0
            /\ 0 <= padded - n /\ padded - n < 100
            /\ n = 317 => padded = 400
            /\ n % 100 = 0 => padded = n
            /\ t.mel.size = QWEN_MEL_BINS * padded
            /\ \A b \in 0..(QWEN_MEL_BINS - 1), f \in 0..(padded - 1) :
                   MelTensorAt(t.mel, padded, b, f) =
                       IF f < n THEN MelEntry(b, f, n) ELSE 0

\* a tensor created over a caller's buffer is live and its buffer is not
BorrowsFreed(tensor, block) ==
    tensor # NULL /\ tensor \in values.live /\ block \notin heap.live

\* C29: no live tensor created with externally owned data refers to a freed
\* buffer: the mel buffer outlives the encoder input, the prompt embedding
\* buffer the prefill input, the decode token buffer the decode token input,
\* and the position scalar (a local of the call) the decode position input.
C29_BorrowedBuffersOutliveTensors ==
    /\ ~BorrowsFreed(t.enc_input, "mel")
    /\ ~BorrowsFreed(t.prefill_input, "input_embeds")
    /\ ~BorrowsFreed(t.decode_token_input, "decode_token_buf")
    /\ (t.decode_pos_input # NULL /\ t.decode_pos_input \in values.live)
           => t.pc # "idle"

\* the steps of a call after the encoder output was copied into the prompt
\* embedding buffer, up to the end of the decode loop
AfterPromptCopy ==
    {"pf_tensor", "pf_run", "pf_first", "dc_load", "dc_inputs", "dc_loop",
     "dc_next"}

\* C30: the encoder output tensor is released right after its data was
\* copied into the prompt embedding buffer: it is not live when the prefill
\* Run is issued, nor at any decode Run.
C30_EncoderOutputReleasedAfterCopy ==
    t.pc \in AfterPromptCopy =>
        ~(t.enc_output # NULL /\ t.enc_output \in values.live)

\* C31: across qwen_onnx_load, qwen_onnx_transcribe and qwen_onnx_free on one
\* context, with either keep_sessions value, every created session is
\* released exactly once: no ReleaseSession is given a session that is not
\* live and no Run is issued on a slot that is empty or released (neither is
\* ever recorded), every live session is held by exactly one slot of the
\* context, so that it is still to be released and cannot be released twice,
\* and after qwen_onnx_free no session is live and no slot is loaded.
C31_SessionsReleasedOnce ==
    /\ ~sessions.bad
    /\ sessions.live = {Slots[i] : i \in LoadedSlots}
    /\ \A i, j \in LoadedSlots : Slots[i] = Slots[j] => i = j
    /\ t.pc \in {"enc_run", "pf_run"} => Slots[IF t.pc = "enc_run" THEN 1 ELSE 2] # NULL
    /\ t.pc = "dc_loop" => decode # NULL
    /\ ctx_state \in {"none", "freed"} /\ ld.pc = "idle" =>
           sessions.live = {} /\ LoadedSlots = {}

\* a context loaded with its three sessions kept has transcribed and was
\* then freed: the three sessions were released by qwen_onnx_free
C31_Witness ==
    /\ keep_sessions /\ ctx_state = "freed"
    /\ sessions.next = 4 /\ sessions.live = {}
    /\ last_n_tokens > 0

\* a context that loads on demand has released its sessions stage by stage,
\* the decode session in the final teardown
C31_WitnessOnDemand ==
    /\ ~keep_sessions /\ ctx_state = "loaded"
    /\ t.pc = "idle" /\ t.ret = "text" /\ t.decode_runs > 0
    /\ sessions.live = {}

\* C32: every token id whose embedding row embed_token_fp16 reads during a
\* transcribe lies in [0, vocab_size), whatever row count the embedding file
\* declares: the prefix and suffix ids written to the prompt (the largest is
\* 151670) and each generated token embedded for a decode Run.
C32_EmbeddedIdsInVocabulary ==
    /\ \A r \in 1..Len(t.input_embeds) :
           t.input_embeds[r].kind = "embed" => InVocabulary(t.input_embeds[r].id)
    /\ t.pc = "dc_next" => InVocabulary(t.token)
    /\ t.pc # "crashed"
====
